---- MODULE Spec2Model ----
(***************************************************************************)
(* A model of django_rest_api: the RESTView dispatcher (views.py) over a   *)
(* small storage (Widget entities with a name, a reference to an Owner and *)
(* a many-to-many field "tags" to Tag entities), and the RESTAPI registry  *)
(* (__init__.py).  Python values are records of one shape (Val), the       *)
(* outcome of a call is a record (Res) that either returns a Val or raises *)
(* an exception, and threads the storage and the trace of calls.           *)
(***************************************************************************)
EXTENDS Integers, Sequences, FiniteSets, TLC

VARIABLES widgets, nextpk, tags, links, hooks, DEBUG, pc, req, resp, first,
          view_by_model, name_by_model, urls, lookup, view,
          editor, deleter, log

storeVars == <<widgets, nextpk, tags, links>>
cfgVars == <<hooks, DEBUG>>
reqVars == <<pc, req, resp, first>>
regVars == <<view_by_model, name_by_model, urls, lookup, view>>
raceVars == <<editor, deleter, log>>
vars == <<widgets, nextpk, tags, links, hooks, DEBUG, pc, req, resp, first,
          view_by_model, name_by_model, urls, lookup, view, editor, deleter, log>>

(***************************************************************************)
(* Bounds of the model.                                                    *)
(***************************************************************************)
\* Primary keys the storage hands out to Widget entities: 1..MaxPk.
MaxPk == 1
\* Tag entities present in the storage at start: 1..NumTags.
NumTags == 1
\* Registrations made at process start: at most MaxUrls entries of RESTAPI.urls.
MaxUrls == 3

(***************************************************************************)
(* Strings of a URL segment or a JSON value that denote primary keys.      *)
(***************************************************************************)
PkStrings == <<"1", "2", "3", "4", "5">>
BadPk == 0
\* int(s) as the storage applies it to a primary-key value: BadPk stands for
\* the ValueError of a string that is no number.
ParsePk(s) ==
    IF \E i \in 1..Len(PkStrings) : PkStrings[i] = s
    THEN CHOOSE i \in 1..Len(PkStrings) : PkStrings[i] = s
    ELSE BadPk

Missing == "<missing>"
Names == {"a", "b"}
\* The Owner entities of the storage; no route of this dispatcher changes them.
Owners == {1}

(***************************************************************************)
(* Python values.                                                          *)
(***************************************************************************)
Val(k, pk, s, name, owner, items) ==
    [k |-> k, pk |-> pk, s |-> s, name |-> name, owner |-> owner, items |-> items]
Str(s) == Val("str", 0, s, "", 0, {})
None == Val("None", 0, "", "", 0, {})
WidgetEntity(pk, f) == Val("Widget", pk, "", f.name, f.owner, {})
TagEntity(pk) == Val("Tag", pk, "", "", 0, {})
OwnerEntity(pk) == Val("Owner", pk, "", "", 0, {})
Queryset(model, pks) == Val("queryset", 0, model, "", 0, pks)
List(model, pks) == Val("list", 0, model, "", 0, pks)
MethodResult(m) == Val("result", 0, m, "", 0, {})
HttpResponse(body) == Val("HttpResponse", 0, body, "", 0, {})
HttpResponseForbidden == Val("HttpResponseForbidden", 0, "", "", 0, {})
HttpResponseBadRequest(msg) == Val("HttpResponseBadRequest", 0, msg, "", 0, {})

IsHttpResponse(v) ==
    v.k \in {"HttpResponse", "HttpResponseForbidden", "HttpResponseBadRequest"}

(***************************************************************************)
(* Outcomes: a returned value or a raised exception, with the storage      *)
(* after the call and the calls made (operations, hooks, invoked methods). *)
(***************************************************************************)
Ok(v, st, tr) == [exc |-> "", msg |-> "", val |-> v, st |-> st, tr |-> tr]
Raise(e, m, st, tr) == [exc |-> e, msg |-> m, val |-> None, st |-> st, tr |-> tr]
\* The outcome r of a callee, seen from a caller whose trace so far is tr.
After(tr, r) == [r EXCEPT !.tr = tr \o r.tr]

\* The one element of a singleton set.
Only(S) == CHOOSE v \in S : TRUE
\* F applied to the value of r: a local name bound to an outcome.
Bind(r, F(_)) == Only({F(v) : v \in {r}})

Store == [widgets |-> widgets, nextpk |-> nextpk, tags |-> tags, links |-> links]

(***************************************************************************)
(* The storage's schema, as the dispatcher reads it through _meta.         *)
(***************************************************************************)
\* model._meta.get_all_field_names()
get_all_field_names(model) ==
    CASE model = "Widget" -> {"id", "name", "owner", "tags"}
      [] model = "Tag" -> {"id"}
      [] OTHER -> {"id"}

\* field.rel.to, "" for a field that is no reference
rel_to(model, field) ==
    CASE model = "Widget" /\ field = "owner" -> "Owner"
      [] model = "Widget" /\ field = "tags" -> "Tag"
      [] OTHER -> ""

\* the m2m flag of model._meta.get_field_by_name(field)
is_m2m(model, field) == model = "Widget" /\ field = "tags"

\* The primary keys of a model's entities in storage st.
Existing(st, model) ==
    CASE model = "Widget" -> DOMAIN st.widgets
      [] model = "Tag" -> st.tags
      [] model = "Owner" -> Owners
      [] OTHER -> {}

\* An entity of a model read from storage st.
Load(st, model, pk) ==
    CASE model = "Widget" -> WidgetEntity(pk, st.widgets[pk])
      [] model = "Tag" -> TagEntity(pk)
      [] OTHER -> OwnerEntity(pk)

\* get_object_or_404(model, pk=value)
get_object_or_404_pk(st, model, value) ==
    LET pk == ParsePk(value) IN
    IF pk = BadPk THEN Raise("ValueError", "invalid literal for int()", st, <<>>)
    ELSE IF pk \notin Existing(st, model)
         THEN Raise("Http404", "No object matches the given query.", st, <<>>)
         ELSE Ok(Load(st, model, pk), st, <<>>)

(***************************************************************************)
(* Trace entries: an operation entered, a hook consulted with its answer,  *)
(* a method of the model invoked.                                          *)
(***************************************************************************)
Call(name) == <<[call |-> name, result |-> ""]>>
Hook(name, answer) == <<[call |-> name, result |-> IF answer THEN "True" ELSE "False"]>>
Invoke(method) == <<[call |-> "invoke", result |-> method]>>

(***************************************************************************)
(* The authorization hooks.  hooks[h] is how the view class overrides h:   *)
(* "default" (the body in views.py), "allow" or "deny" (always true/false).*)
(***************************************************************************)
HookNames == {"can_get_entity", "can_get_linked_entity", "can_create_entity",
              "can_create_linked_entity", "can_edit_entity", "can_delete_entity",
              "can_delete_linked_entity"}

can_get_entity ==
    IF hooks["can_get_entity"] = "default" THEN TRUE
    ELSE hooks["can_get_entity"] = "allow"

can_get_linked_entity ==
    IF hooks["can_get_linked_entity"] = "default" THEN TRUE
    ELSE hooks["can_get_linked_entity"] = "allow"

can_create_entity ==
    IF hooks["can_create_entity"] = "default" THEN TRUE
    ELSE hooks["can_create_entity"] = "allow"

can_create_linked_entity ==
    IF hooks["can_create_linked_entity"] = "default" THEN TRUE
    ELSE hooks["can_create_linked_entity"] = "allow"

can_edit_entity ==
    IF hooks["can_edit_entity"] = "default" THEN can_get_entity
    ELSE hooks["can_edit_entity"] = "allow"

can_delete_entity ==
    IF hooks["can_delete_entity"] = "default" THEN can_edit_entity
    ELSE hooks["can_delete_entity"] = "allow"

can_delete_linked_entity ==
    IF hooks["can_delete_linked_entity"] = "default" THEN can_create_linked_entity
    ELSE hooks["can_delete_linked_entity"] = "allow"

(***************************************************************************)
(* Entity and collection resolution.  q is request.GET: one parameter      *)
(* [f, v], or f = "" for none.                                             *)
(***************************************************************************)
\* queryset.filter(**{field: value}) on a field that is no reference
filter_scalar(st, qs, field, value) ==
    IF field = "id"
    THEN IF ParsePk(value) = BadPk
         THEN Raise("ValueError", "invalid literal for int()", st, <<>>)
         ELSE Ok(Queryset(qs.s, qs.items \cap {ParsePk(value)}), st, <<>>)
    ELSE Ok(Queryset(qs.s, {p \in qs.items : st.widgets[p].name = value}), st, <<>>)

\* queryset.filter(**{field: reference}) on a reference field
filter_reference(st, qs, field, reference) ==
    IF field = "owner"
    THEN Queryset(qs.s, {p \in qs.items : st.widgets[p].owner = reference.pk})
    ELSE Queryset(qs.s, {p \in qs.items : <<p, reference.pk>> \in st.links})

apply_filter(st, qs, field, value) ==
    IF rel_to(qs.s, field) = ""
    THEN filter_scalar(st, qs, field, value)
    ELSE Bind(get_object_or_404_pk(st, rel_to(qs.s, field), value), LAMBDA reference :
         IF reference.exc # "" THEN reference
         ELSE Ok(filter_reference(st, qs, field, reference.val), st, <<>>))

filter_queryset(st, q, qs) ==
    IF q.f \in get_all_field_names(qs.s)
    THEN apply_filter(st, qs, q.f, q.v)
    ELSE Ok(qs, st, <<>>)

\* get_entity's lookup, lines 201-210: queryset.get(pk=...) and the two
\* handlers, whose message names instance_pk, a name that is bound nowhere.
get_entity_lookup(st, q, x) ==
    Bind(filter_queryset(st, q, Queryset("Widget", Existing(st, "Widget"))),
         LAMBDA queryset :
    IF queryset.exc # "" THEN queryset
    ELSE IF x.k # "str"
         THEN Raise("TypeError", "int() argument must be a string or a number", st, <<>>)
    ELSE IF ParsePk(x.s) = BadPk \/ ParsePk(x.s) \notin queryset.val.items
         THEN Raise("NameError", "global name 'instance_pk' is not defined", st, <<>>)
    ELSE Ok(Load(st, "Widget", ParsePk(x.s)), st, <<>>))

get_entity(st, q, x) ==
    Bind(IF x.k = "Widget" THEN Ok(x, st, <<>>) ELSE get_entity_lookup(st, q, x),
         LAMBDA entity :
    IF entity.exc # "" THEN After(Call("get_entity"), entity)
    ELSE IF can_get_entity
         THEN Ok(entity.val, st, Call("get_entity") \o Hook("can_get_entity", TRUE))
         ELSE Ok(HttpResponseForbidden, st,
                 Call("get_entity") \o Hook("can_get_entity", FALSE)))

\* Fault variant of get_linked_queryset: the manager of the linked model, not
\* the related manager of the entity, so every Tag counts as linked.
get_linked_queryset_unscoped(st, entity, link) ==
    IF entity.k # "Widget"
    THEN Raise("AttributeError", "object has no attribute '_meta'", st, <<>>)
    ELSE IF link \notin get_all_field_names("Widget") \/ ~is_m2m("Widget", link)
         THEN Raise("TypeError", "Field does not exist.", st, <<>>)
    ELSE Ok(Queryset(rel_to("Widget", link), st.tags), st, <<>>)

\* entity._meta.get_field_by_name(link)[3], then getattr(entity, link)
get_linked_queryset(st, entity, link) ==
    IF entity.k # "Widget"
    THEN Raise("AttributeError", "object has no attribute '_meta'", st, <<>>)
    ELSE IF link \notin get_all_field_names("Widget")
         THEN Raise("TypeError", "Field does not exist.", st, <<>>)
    ELSE IF ~is_m2m("Widget", link)
         THEN Raise("TypeError", "Field is not a m2m field.", st, <<>>)
    ELSE Ok(Queryset(rel_to("Widget", link),
                     {t \in st.tags : <<entity.pk, t>> \in st.links}), st, <<>>)

get_linked_model(st, link) ==
    IF link \notin get_all_field_names("Widget")
    THEN Raise("TypeError", "Field does not exist.", st, <<>>)
    ELSE IF ~is_m2m("Widget", link)
         THEN Raise("TypeError", "Field is not a m2m field.", st, <<>>)
    ELSE Ok(Str(rel_to("Widget", link)), st, <<>>)

get_collection(st, q) ==
    Bind(filter_queryset(st, q, Queryset("Widget", Existing(st, "Widget"))),
         LAMBDA queryset :
    IF queryset.exc # "" THEN After(Call("get_collection"), queryset)
    ELSE Ok(List("Widget", {p \in queryset.val.items : can_get_entity}), st,
            Call("get_collection")))

\* get_linked_collection and get_linked_entity from their second line on:
\* the linked queryset of entity, filtered by the request.
linked_queryset_of(st, q, entity, link) ==
    Bind(get_linked_queryset(st, entity, link), LAMBDA base_queryset :
    IF base_queryset.exc # "" THEN base_queryset
    ELSE filter_queryset(st, q, base_queryset.val))

get_linked_collection(st, q, x, link) ==
    Bind(get_entity(st, q, x), LAMBDA entity :
    IF entity.exc # "" THEN After(Call("get_linked_collection"), entity)
    ELSE Bind(linked_queryset_of(st, q, entity.val, link), LAMBDA queryset :
    IF queryset.exc # "" THEN After(Call("get_linked_collection") \o entity.tr, queryset)
    ELSE Ok(List(queryset.val.s, {t \in queryset.val.items : can_get_linked_entity}),
            st, Call("get_linked_collection") \o entity.tr)))

get_linked_entity(st, q, x, link, linked_instance_pk) ==
    Bind(get_entity(st, q, x), LAMBDA entity :
    IF entity.exc # "" THEN After(Call("get_linked_entity"), entity)
    ELSE Bind(linked_queryset_of(st, q, entity.val, link), LAMBDA queryset :
    LET tr1 == Call("get_linked_entity") \o entity.tr IN
    IF queryset.exc # "" THEN After(tr1, queryset)
    ELSE IF ParsePk(linked_instance_pk) = BadPk
         THEN Raise("TypeError", "Invalid primary key value", st, tr1)
    ELSE IF ParsePk(linked_instance_pk) \notin queryset.val.items
         THEN Raise("TypeError", "There is no instance with primary key", st, tr1)
    ELSE IF can_get_linked_entity
         THEN Ok(Load(st, queryset.val.s, ParsePk(linked_instance_pk)), st,
                 tr1 \o Hook("can_get_linked_entity", TRUE))
         ELSE Ok(HttpResponseForbidden, st, tr1 \o Hook("can_get_linked_entity", FALSE))))

(***************************************************************************)
(* Request bodies after json.loads: data.json is "dict" for a mapping,     *)
(* "list" for another JSON value; a mapping's keys are those of DataKeys   *)
(* whose value is not Missing.                                             *)
(***************************************************************************)
DataKeys == {"name", "owner", "id"}
Data(json, name, owner, id) == [json |-> json, name |-> name, owner |-> owner, id |-> id]
isinstance_dict(data) == data.json = "dict"
keys(data) == {k \in DataKeys : data[k] # Missing}

\* model._meta.fields of Widget with their editable and primary_key flags
meta_fields ==
    {[name |-> "id", editable |-> TRUE, primary_key |-> TRUE],
     [name |-> "name", editable |-> TRUE, primary_key |-> FALSE],
     [name |-> "owner", editable |-> TRUE, primary_key |-> FALSE]}

get_model_form_fields == {x \in meta_fields : x.editable /\ ~x.primary_key}

\* Fault variant of get_model_form: desired_fields is not applied.
get_model_form_unrestricted(desired_fields) ==
    {x.name : x \in get_model_form_fields}

\* The field names of the ModelForm, {} for None.  desired_fields is a set of
\* names, or {Missing} for the default None.
get_model_form(desired_fields) ==
    LET fields == IF desired_fields # {Missing}
                  THEN {x \in get_model_form_fields : x.name \in desired_fields}
                  ELSE get_model_form_fields IN
    {x.name : x \in fields}

\* Whether form.save() finds the bound data valid: every field of the form is
\* given, and a reference names an existing entity.
form_is_valid(st, FormCls, data) ==
    /\ \A f \in FormCls : data[f] # Missing
    /\ "owner" \in FormCls => ParsePk(data.owner) \in Existing(st, "Owner")

\* The field values form.save() writes: those of the form from the data, the
\* others from the instance.
form_values(FormCls, data, instance) ==
    [name |-> IF "name" \in FormCls THEN data.name ELSE instance.name,
     owner |-> IF "owner" \in FormCls THEN ParsePk(data.owner) ELSE instance.owner]

\* Model.save(): the row of entity's primary key is written, inserted when absent
save(st, entity) ==
    [st EXCEPT !.widgets =
        [p \in DOMAIN st.widgets \cup {entity.pk} |->
            IF p = entity.pk THEN [name |-> entity.name, owner |-> entity.owner]
            ELSE st.widgets[p]]]

\* Fault variant of insert: the primary key is taken and the row is not written.
insert_uncommitted(st, f) == [st EXCEPT !.nextpk = st.nextpk + 1]

\* Model.save() of a new instance: the storage assigns the next primary key
insert(st, f) ==
    [save(st, WidgetEntity(st.nextpk, f)) EXCEPT !.nextpk = st.nextpk + 1]

\* Model.delete(): the row and the link rows of the entity
delete_row(st, entity) ==
    [st EXCEPT !.widgets = [p \in DOMAIN st.widgets \ {entity.pk} |-> st.widgets[p]],
               !.links = {l \in st.links : l[1] # entity.pk}]

\* queryset.add(linked_entity) on the related manager of entity
add_link(st, entity, linked_entity) ==
    [st EXCEPT !.links = st.links \cup {<<entity.pk, linked_entity.pk>>}]

\* Fault variant of remove_link: the linked entity is deleted with its link.
remove_link_and_entity(st, entity, linked_entity) ==
    [st EXCEPT !.links = {l \in st.links : l[2] # linked_entity.pk},
               !.tags = st.tags \ {linked_entity.pk}]

\* queryset.remove(linked_entity) on the related manager of entity
remove_link(st, entity, linked_entity) ==
    [st EXCEPT !.links = st.links \ {<<entity.pk, linked_entity.pk>>}]

\* get_object_or_404(model, **data)
get_object_or_404(st, model, data) ==
    IF keys(data) \ get_all_field_names(model) # {}
    THEN Raise("FieldError", "Cannot resolve keyword into field.", st, <<>>)
    ELSE IF data.id # Missing THEN get_object_or_404_pk(st, model, data.id)
    ELSE IF Existing(st, model) = {}
         THEN Raise("Http404", "No object matches the given query.", st, <<>>)
    ELSE IF Cardinality(Existing(st, model)) > 1
         THEN Raise("MultipleObjectsReturned", "get() returned more than one", st, <<>>)
    ELSE Ok(Load(st, model, CHOOSE t \in Existing(st, model) : TRUE), st, <<>>)

(***************************************************************************)
(* Mutation operations.                                                    *)
(***************************************************************************)
create_entity(st, q, data) ==
    IF ~isinstance_dict(data)
    THEN Raise("ValueError", "POST data should contain dictionary", st, Call("create_entity"))
    ELSE IF ~can_create_entity
         THEN Ok(HttpResponseForbidden, st,
                 Call("create_entity") \o Hook("can_create_entity", FALSE))
    ELSE LET FormCls == get_model_form({Missing})
             tr1 == Call("create_entity") \o Hook("can_create_entity", TRUE) IN
    IF FormCls = {} THEN Ok(HttpResponseForbidden, st, tr1)
    ELSE IF ~form_is_valid(st, FormCls, data)
         THEN Ok(HttpResponseBadRequest("The Widget could not be created"), st, tr1)
    ELSE Bind(form_values(FormCls, data, [name |-> "", owner |-> 0]), LAMBDA f :
         Ok(WidgetEntity(st.nextpk, f), insert(st, f), tr1 \o Call("save")))

\* create_linked_entity from line 291 on: the link is one of the model
create_linked_entity_else(st, entity, linked_model, data) ==
    LET tr1 == Call("create_linked_entity") \o entity.tr IN
    IF ~isinstance_dict(data)
    THEN Raise("ValueError", "POST data should contain dictionary", st, tr1)
    ELSE Bind(get_object_or_404(st, linked_model, data), LAMBDA linked_entity :
    IF linked_entity.exc # "" THEN After(tr1, linked_entity)
    ELSE IF ~can_create_linked_entity
         THEN Ok(HttpResponseForbidden, st, tr1 \o Hook("can_create_linked_entity", FALSE))
    ELSE Ok(None, save(add_link(st, entity.val, linked_entity.val), entity.val),
            tr1 \o Hook("can_create_linked_entity", TRUE) \o Call("add") \o Call("save")))

create_linked_entity(st, q, x, link, data) ==
    Bind(get_entity(st, q, x), LAMBDA entity :
    IF entity.exc # "" THEN After(Call("create_linked_entity"), entity)
    ELSE Bind(get_linked_model(st, link), LAMBDA linked_model :
    IF linked_model.exc # ""
    THEN After(Call("create_linked_entity") \o entity.tr, linked_model)
    ELSE Bind(get_linked_queryset(st, entity.val, link), LAMBDA queryset :
    IF queryset.exc # "" THEN After(Call("create_linked_entity") \o entity.tr, queryset)
    ELSE create_linked_entity_else(st, entity, linked_model.val.s, data))))

edit_entity(st, q, instance_pk, data) ==
    IF ~isinstance_dict(data)
    THEN Raise("ValueError", "PUT data should contain dictionary", st, Call("edit_entity"))
    ELSE Bind(get_entity(st, q, instance_pk), LAMBDA entity :
    LET tr1 == Call("edit_entity") \o entity.tr
        tr2 == tr1 \o Hook("can_edit_entity", TRUE)
        FormCls == get_model_form(keys(data)) IN
    IF entity.exc # "" THEN After(Call("edit_entity"), entity)
    ELSE IF ~can_edit_entity
         THEN Ok(HttpResponseForbidden, st, tr1 \o Hook("can_edit_entity", FALSE))
    ELSE IF FormCls = {} THEN Ok(HttpResponseForbidden, st, tr2)
    ELSE IF entity.val.k # "Widget"
         THEN Raise("AttributeError", "object has no attribute '_meta'", st, tr2)
    ELSE IF ~form_is_valid(st, FormCls, data)
         THEN Ok(HttpResponseBadRequest("The Widget could not be changed"), st, tr2)
    ELSE Bind(WidgetEntity(entity.val.pk, form_values(FormCls, data, entity.val)),
              LAMBDA saved : Ok(saved, save(st, saved), tr2 \o Call("save"))))

\* Fault variant of delete_entity: the answer of can_delete_entity is not
\* returned on, and the entity is deleted all the same.
delete_entity_unguarded(st, q, instance_pk) ==
    Bind(get_entity(st, q, instance_pk), LAMBDA entity :
    LET tr1 == Call("delete_entity") \o entity.tr IN
    IF entity.exc # "" THEN After(Call("delete_entity"), entity)
    ELSE IF entity.val.k # "Widget"
         THEN Raise("AttributeError", "object has no attribute 'delete'", st,
                    tr1 \o Hook("can_delete_entity", can_delete_entity))
    ELSE Ok(None, delete_row(st, entity.val),
            tr1 \o Hook("can_delete_entity", can_delete_entity) \o Call("delete")))

delete_entity(st, q, instance_pk) ==
    Bind(get_entity(st, q, instance_pk), LAMBDA entity :
    LET tr1 == Call("delete_entity") \o entity.tr IN
    IF entity.exc # "" THEN After(Call("delete_entity"), entity)
    ELSE IF ~can_delete_entity
         THEN Ok(HttpResponseForbidden, st, tr1 \o Hook("can_delete_entity", FALSE))
    ELSE IF entity.val.k # "Widget"
         THEN Raise("AttributeError", "object has no attribute 'delete'", st,
                    tr1 \o Hook("can_delete_entity", TRUE))
    ELSE Ok(None, delete_row(st, entity.val),
            tr1 \o Hook("can_delete_entity", TRUE) \o Call("delete")))

\* queryset.remove(linked_entity), lines 346-347
remove_linked(st, entity, link, linked_entity, tr) ==
    Bind(get_linked_queryset(st, entity, link), LAMBDA queryset :
    IF queryset.exc # "" THEN After(tr, queryset)
    ELSE IF linked_entity.k # "Tag"
         THEN Raise("TypeError", "int() argument must be a string or a number", st, tr)
    ELSE Ok(None, remove_link(st, entity, linked_entity), tr \o Call("remove")))

delete_linked_entity(st, q, instance_pk, link, linked_instance_pk) ==
    Bind(get_entity(st, q, instance_pk), LAMBDA entity :
    IF entity.exc # "" THEN After(Call("delete_linked_entity"), entity)
    ELSE Bind(get_linked_entity(st, q, entity.val, link, linked_instance_pk),
              LAMBDA linked_entity :
    LET tr1 == Call("delete_linked_entity") \o entity.tr \o linked_entity.tr IN
    IF linked_entity.exc # ""
    THEN After(Call("delete_linked_entity") \o entity.tr, linked_entity)
    ELSE IF ~can_delete_linked_entity
         THEN Ok(HttpResponseForbidden, st, tr1 \o Hook("can_delete_linked_entity", FALSE))
    ELSE remove_linked(st, entity.val, link, linked_entity.val,
                       tr1 \o Hook("can_delete_linked_entity", TRUE))))

(***************************************************************************)
(* Method invocation.  The Widget model of this development declares a     *)
(* class method "total", a static method "util" and an instance method     *)
(* "describe"; an invoked method returns a value and leaves the storage.   *)
(***************************************************************************)
\* What getattr(model, method, None) is, by the way the model declares it.
attr_kind(method) ==
    CASE method = "total" -> "classmethod"
      [] method = "util" -> "staticmethod"
      [] method = "describe" -> "instancemethod"
      [] method \in get_all_field_names("Widget") -> "field"
      [] OTHER -> "absent"

call_collection_method(st, method, data) ==
    Bind(attr_kind(method), LAMBDA collection_method :
    IF collection_method \in {"classmethod", "staticmethod", "instancemethod"}
    THEN IF collection_method = "staticmethod"
         THEN Ok(MethodResult(method), st, Call("call_collection_method") \o Invoke(method))
         ELSE IF collection_method = "classmethod"
              THEN Ok(MethodResult(method), st,
                      Call("call_collection_method") \o Invoke(method))
              ELSE Raise("TypeError", "Unbound methods are not allowed.", st,
                         Call("call_collection_method"))
    ELSE Raise("TypeError", "is not a callable.", st, Call("call_collection_method")))

call_entity_method(st, q, x, method, data) ==
    Bind(get_entity(st, q, x), LAMBDA entity :
    LET tr1 == Call("call_entity_method") \o entity.tr
        entity_method == IF entity.val.k = "Widget" THEN attr_kind(method) ELSE "absent" IN
    IF entity.exc # "" THEN After(Call("call_entity_method"), entity)
    ELSE IF entity_method \in {"classmethod", "staticmethod", "instancemethod"}
         THEN IF entity_method = "staticmethod"
              THEN Raise("TypeError", "Static methods are not allowed.", st, tr1)
              ELSE Ok(MethodResult(method), st, tr1 \o Invoke(method))
         ELSE Raise("TypeError", "is not a callable.", st, tr1))

call_linked_collection_method(st, entity, link, method, data) ==
    Ok(HttpResponse(method), st, Call("call_linked_collection_method"))

call_linked_entity_method(st, entity, link, linked_entity, method, data) ==
    Ok(HttpResponse(method), st, Call("call_linked_entity_method"))

(***************************************************************************)
(* Responses.  A response is its status, its message or body text and the  *)
(* value it serializes; raised tells a 404 raised as Http404 out of the    *)
(* view from a response the view returned.                                 *)
(***************************************************************************)
Response(status, msg, val, raised) ==
    [status |-> status, msg |-> msg, val |-> val, raised |-> raised]

reply_to_response(reply) ==
    IF reply.k = "None" THEN Response(204, "", None, FALSE)
    ELSE IF IsHttpResponse(reply)
         THEN Response(CASE reply.k = "HttpResponseForbidden" -> 403
                         [] reply.k = "HttpResponseBadRequest" -> 400
                         [] OTHER -> 200,
                       reply.s, None, FALSE)
    ELSE Response(200, "", reply, FALSE)

\* The two handlers every verb ends with: TypeError becomes a raised Http404,
\* any other exception a 400 response; the message is given under DEBUG only.
handle(r) ==
    IF r.exc = "" THEN reply_to_response(r.val)
    ELSE IF r.exc = "TypeError"
         THEN Response(404, IF DEBUG THEN r.msg ELSE "", None, TRUE)
    ELSE Response(400, IF DEBUG THEN r.msg ELSE "", None, FALSE)

\* Fault variant of json_loads: a body that does not decode is passed on.
json_loads_lenient(st, body) == Ok(None, st, <<>>)

\* json.loads(request.body): a body is held as what it decodes to, "bad"
\* when it does not decode
json_loads(st, body) ==
    IF body.json = "bad"
    THEN Raise("ValueError", "No JSON object could be decoded", st, <<>>)
    ELSE Ok(None, st, <<>>)

Seg(args, i) == Str(args[i])

get(st, q, args) ==
    LET cargs == Len(args) IN
    CASE cargs = 0 -> get_collection(st, q)
      [] cargs = 1 -> get_entity(st, q, Seg(args, 1))
      [] cargs = 2 -> get_linked_collection(st, q, Seg(args, 1), args[2])
      [] cargs = 3 -> get_linked_entity(st, q, Seg(args, 1), args[2], args[3])
      [] OTHER -> Raise("Http404", "", st, <<>>)

\* Fault variant of post_two: no handler for the TypeError of the first attempt.
post_two_no_fallback(st, q, args, data) ==
    create_linked_entity(st, q, Seg(args, 1), args[2], data)

\* post, lines 489-496: the linked entity first, the entity method on TypeError
post_two(st, q, args, data) ==
    Bind(create_linked_entity(st, q, Seg(args, 1), args[2], data), LAMBDA linked :
    IF linked.exc = "TypeError"
    THEN After(linked.tr, call_entity_method(st, q, Seg(args, 1), args[2], data))
    ELSE linked)

post(st, q, args, body) ==
    LET cargs == Len(args) IN
    IF json_loads(st, body).exc # "" THEN json_loads(st, body)
    ELSE CASE cargs = 0 -> create_entity(st, q, body)
           [] cargs = 1 -> call_collection_method(st, args[1], body)
           [] cargs = 2 -> post_two(st, q, args, body)
           [] cargs = 3 -> call_linked_collection_method(st, args[1], args[2], args[3], body)
           [] cargs = 4 -> call_linked_entity_method(st, args[1], args[2], args[3],
                                                     args[4], body)
           [] OTHER -> Raise("TypeError", "", st, <<>>)

put(st, q, args, body) ==
    LET cargs == Len(args) IN
    IF json_loads(st, body).exc # "" THEN json_loads(st, body)
    ELSE IF cargs = 1 THEN edit_entity(st, q, Seg(args, 1), body)
         ELSE Raise("TypeError", "", st, <<>>)

delete(st, q, args) ==
    LET cargs == Len(args) IN
    CASE cargs = 1 -> delete_entity(st, q, Seg(args, 1))
      [] cargs = 3 -> delete_linked_entity(st, q, Seg(args, 1), args[2], args[3])
      [] OTHER -> Raise("TypeError", "", st, <<>>)

(***************************************************************************)
(* The requests of the model.                                              *)
(***************************************************************************)
NoQuery == [f |-> "", v |-> ""]
Queries ==
    {NoQuery, [f |-> "name", v |-> "a"], [f |-> "owner", v |-> "2"],
     [f |-> "tags", v |-> "1"]}

NoBody == Data("none", Missing, Missing, Missing)
Bodies ==
    {Data("bad", Missing, Missing, Missing),
     Data("list", Missing, Missing, Missing),
     Data("dict", Missing, Missing, Missing),
     Data("dict", "a", "1", Missing),
     Data("dict", "b", "1", Missing),
     Data("dict", "b", Missing, Missing),
     Data("dict", "a", "2", Missing)}
     \cup {Data("dict", Missing, Missing, PkStrings[i]) : i \in 1..NumTags + 1}

PkSegs == {PkStrings[i] : i \in 1..MaxPk + 1} \cup {"abc"}
TagSegs == {PkStrings[i] : i \in 1..NumTags} \cup {"abc"}
LinkSegs == {"tags", "name", "nope"}
MethodSegs == {"total", "util", "describe", "name", "nope"}

GetArgs ==
    {<<>>} \cup {<<a>> : a \in PkSegs}
    \cup {<<a, l>> : a \in PkSegs, l \in LinkSegs}
    \cup {<<a, l, t>> : a \in PkSegs, l \in LinkSegs, t \in TagSegs}
    \cup {<<"1", "tags", "1", "describe">>}

PostArgs ==
    {<<>>} \cup {<<m>> : m \in MethodSegs}
    \cup {<<a, m>> : a \in PkSegs, m \in {"tags"} \cup MethodSegs}
    \cup {<<"1", "tags", "total">>, <<"1", "tags", "1", "describe">>}

PutArgs == {<<>>} \cup {<<a>> : a \in PkSegs}

DeleteArgs ==
    {<<>>} \cup {<<a>> : a \in PkSegs}
    \cup {<<a, l, t>> : a \in PkSegs, l \in LinkSegs, t \in TagSegs}

Request(verb, args, q, body) == [verb |-> verb, args |-> args, q |-> q, body |-> body]
NoRequest == Request("", <<>>, NoQuery, NoBody)
NoResponse == Response(0, "", None, FALSE)

\* The view class's overrides of the hooks: none, one hook denying, or a hook
\* that delegates allowing while the hook it delegates to denies.
Default == [h \in HookNames |-> "default"]
HookProfiles ==
    {Default}
    \cup {[Default EXCEPT ![h] = "deny"] : h \in HookNames}
    \cup {[Default EXCEPT !["can_get_entity"] = "deny", !["can_edit_entity"] = "allow"],
          [Default EXCEPT !["can_get_entity"] = "deny", !["can_delete_entity"] = "allow"],
          [Default EXCEPT !["can_edit_entity"] = "deny", !["can_delete_entity"] = "allow"],
          [Default EXCEPT !["can_create_linked_entity"] = "deny",
                          !["can_delete_linked_entity"] = "allow"]}

(***************************************************************************)
(* The registry (RESTAPI).  Models are classes with their tuple of bases   *)
(* in declaration order; view_by_model and name_by_model are dicts.        *)
(***************************************************************************)
Classes == {"object", "Model", "Article", "Tagged", "Post", "Special"}
Registrable == {"Article", "Tagged", "Post", "Special"}
Views == {"ArticleView", "TaggedView"}
NoView == "None"

\* Model.__bases__
Bases(Model) ==
    CASE Model = "object" -> <<>>
      [] Model = "Model" -> <<"object">>
      [] Model = "Article" -> <<"Model">>
      [] Model = "Tagged" -> <<"Model">>
      [] Model = "Post" -> <<"Article", "Tagged">>
      [] Model = "Special" -> <<"Post">>

\* Model._meta.verbose_name_plural
verbose_name_plural(Model) ==
    CASE Model = "Article" -> "Articles"
      [] Model = "Tagged" -> "Tagged Items"
      [] Model = "Post" -> "Posts"
      [] Model = "Special" -> "Special Posts"
      [] OTHER -> ""

\* s.lower().replace(' ', '')
lower_nospace(s) ==
    CASE s = "Articles" -> "articles"
      [] s = "Tagged Items" -> "taggeditems"
      [] s = "Posts" -> "posts"
      [] s = "Special Posts" -> "specialposts"
      [] OTHER -> s

\* d[k] = v on a dict d
DictSet(d, k, v) == [x \in DOMAIN d \cup {k} |-> IF x = k THEN v ELSE d[x]]

RECURSIVE get_view_by_model(_, _), first_base_view(_, _, _)
\* Fault variant of first_base_view: the loop does not return at the first
\* view it finds, and ends with the view of the last base that has one.
first_base_view_last(registry, bases, i) ==
    LET resolving == {j \in i..Len(bases) :
                         get_view_by_model(registry, bases[j]) # NoView} IN
    IF resolving = {} THEN NoView
    ELSE get_view_by_model(registry, bases[CHOOSE j \in resolving :
                                               \A k \in resolving : k <= j])

\* The loop of get_view_by_model over Model.__bases__ from index i on.
first_base_view(registry, bases, i) ==
    IF i > Len(bases) THEN NoView
    ELSE LET v == get_view_by_model(registry, bases[i]) IN
         IF v # NoView THEN v ELSE first_base_view(registry, bases, i + 1)

get_view_by_model(registry, Model) ==
    IF Model \in DOMAIN registry THEN registry[Model]
    ELSE first_base_view(registry, Bases(Model), 1)

\* register(Model, View, name); name = "" stands for None
Register ==
    /\ pc = "idle"
    /\ Len(urls) < MaxUrls
    /\ \E Model \in Registrable, View \in Views, given \in {"", "api"} :
          LET name == IF given = "" THEN lower_nospace(verbose_name_plural(Model))
                      ELSE given IN
          /\ view_by_model' = DictSet(view_by_model, Model, View)
          /\ name_by_model' = DictSet(name_by_model, Model, name)
          /\ urls' = Append(urls, [prefix |-> name, namespace |-> name, view |-> View])
    /\ UNCHANGED <<storeVars, cfgVars, reqVars, lookup, view, raceVars>>

\* A caller asks the registry for the view of a model.
GetView ==
    /\ pc = "idle"
    /\ \E Model \in Classes :
          /\ lookup' = Model
          /\ view' = get_view_by_model(view_by_model, Model)
    /\ UNCHANGED <<storeVars, cfgVars, reqVars, view_by_model, name_by_model, urls, raceVars>>

(***************************************************************************)
(* The dispatcher as a state machine: a worker takes a request when idle,  *)
(* handles it to completion against the storage, and hands the response    *)
(* back.  tr is the trace of the handled request.                          *)
(***************************************************************************)
Observed(r) ==
    Bind(handle(r), LAMBDA h : [h EXCEPT !.val = [tr |-> r.tr, reply |-> h.val]])
NoObserved == [NoResponse EXCEPT !.val = [tr |-> <<>>, reply |-> None]]

Serve(request, r) ==
    /\ r.st.nextpk <= MaxPk + 1
    /\ pc' = "done"
    /\ req' = request
    /\ resp' = Observed(r)
    /\ first' = NoObserved
    /\ widgets' = r.st.widgets
    /\ nextpk' = r.st.nextpk
    /\ tags' = r.st.tags
    /\ links' = r.st.links
    /\ UNCHANGED <<cfgVars, regVars, raceVars>>

Get ==
    /\ pc = "idle"
    /\ \E args \in GetArgs, q \in Queries :
          \E r \in {get(Store, q, args)} : Serve(Request("GET", args, q, NoBody), r)

Post ==
    /\ pc = "idle"
    /\ \E args \in PostArgs, q \in Queries, body \in Bodies :
          \E r \in {post(Store, q, args, body)} : Serve(Request("POST", args, q, body), r)

Put ==
    /\ pc = "idle"
    /\ \E args \in PutArgs, q \in Queries, body \in Bodies :
          \E r \in {put(Store, q, args, body)} : Serve(Request("PUT", args, q, body), r)

Delete ==
    /\ pc = "idle"
    /\ \E args \in DeleteArgs, q \in Queries :
          \E r \in {delete(Store, q, args)} : Serve(Request("DELETE", args, q, NoBody), r)

\* The client sends its DELETE again: the identical request, handled against
\* the storage as the first attempt left it.
Retry ==
    /\ pc = "done"
    /\ req.verb = "DELETE"
    /\ \E r \in {delete(Store, req.q, req.args)} :
          /\ pc' = "redone"
          /\ first' = resp
          /\ resp' = Observed(r)
          /\ widgets' = r.st.widgets
          /\ nextpk' = r.st.nextpk
          /\ tags' = r.st.tags
          /\ links' = r.st.links
    /\ UNCHANGED <<req, cfgVars, regVars, raceVars>>

\* A worker of a multi-threaded server: where it is in its request, the
\* request, the entity it holds, the calls it made, and its response.
Worker(at, request, entity, tr, response) ==
    [pc |-> at, req |-> request, entity |-> entity, tr |-> tr, resp |-> response]
NoWorker == Worker("idle", NoRequest, None, <<>>, NoObserved)

Respond ==
    /\ pc \in {"done", "redone"}
    /\ pc' = "idle"
    /\ req' = NoRequest
    /\ resp' = NoObserved
    /\ first' = NoObserved
    /\ UNCHANGED <<storeVars, cfgVars, regVars, raceVars>>

Init ==
    /\ widgets = [p \in {} |-> [name |-> "", owner |-> 0]]
    /\ nextpk = 1
    /\ tags = 1..NumTags
    /\ links = {}
    /\ hooks \in HookProfiles
    /\ DEBUG \in BOOLEAN
    /\ pc = "idle"
    /\ req = NoRequest
    /\ resp = NoObserved
    /\ first = NoObserved
    /\ view_by_model = [m \in {} |-> NoView]
    /\ name_by_model = [m \in {} |-> ""]
    /\ urls = <<>>
    /\ lookup = ""
    /\ view = ""
    /\ editor = NoWorker
    /\ deleter = NoWorker
    /\ log = <<>>

Next == Get \/ Post \/ Put \/ Delete \/ Retry \/ Respond

Spec == Init /\ [][Next]_vars

\* The registry at process start, under one dispatcher configuration.
InitRegistry == Init /\ hooks = Default /\ DEBUG = FALSE

NextRegistry == Register \/ GetView

SpecRegistry == InitRegistry /\ [][NextRegistry]_vars

(***************************************************************************)
(* Two workers on one storage: one handles a PUT with one segment, the     *)
(* other a DELETE with one segment.  Each step of a worker is the part of  *)
(* its handler up to and including one call on the storage; the steps of   *)
(* the two workers interleave.  log is the order of the steps taken.       *)
(***************************************************************************)
\* put up to the return of get_entity in edit_entity (lines 527-530, 304-307)
edit_entity_resolve(st, q, args, data) ==
    IF json_loads(st, data).exc # "" THEN json_loads(st, data)
    ELSE IF Len(args) # 1 THEN Raise("TypeError", "", st, <<>>)
    ELSE IF ~isinstance_dict(data)
         THEN Raise("ValueError", "PUT data should contain dictionary", st,
                    Call("edit_entity"))
    ELSE After(Call("edit_entity"), get_entity(st, q, Seg(args, 1)))

\* Fault variant of edit_entity_save: the entity is looked up again before it
\* is saved, and a TypeError raised when it is gone.
edit_entity_save_rechecked(st, entity, data, tr) ==
    LET FormCls == get_model_form(keys(data)) IN
    IF entity.k # "Widget"
    THEN Raise("AttributeError", "object has no attribute '_meta'", st, tr)
    ELSE IF entity.pk \notin Existing(st, "Widget")
         THEN Raise("TypeError", "There is no Widget instance with primary key", st, tr)
    ELSE IF ~form_is_valid(st, FormCls, data)
         THEN Ok(HttpResponseBadRequest("The Widget could not be changed"), st, tr)
    ELSE Bind(WidgetEntity(entity.pk, form_values(FormCls, data, entity)),
              LAMBDA saved : Ok(saved, save(st, saved), tr \o Call("save")))

\* edit_entity from FormCls(data, instance=entity) on (lines 315-322), with
\* the entity the worker holds
edit_entity_save(st, entity, data, tr) ==
    LET FormCls == get_model_form(keys(data)) IN
    IF entity.k # "Widget"
    THEN Raise("AttributeError", "object has no attribute '_meta'", st, tr)
    ELSE IF ~form_is_valid(st, FormCls, data)
         THEN Ok(HttpResponseBadRequest("The Widget could not be changed"), st, tr)
    ELSE Bind(WidgetEntity(entity.pk, form_values(FormCls, data, entity)),
              LAMBDA saved : Ok(saved, save(st, saved), tr \o Call("save")))

\* delete_entity from the hook on (lines 329-332), with the entity the worker holds
delete_entity_act(st, entity, tr) ==
    IF ~can_delete_entity
    THEN Ok(HttpResponseForbidden, st, tr \o Hook("can_delete_entity", FALSE))
    ELSE IF entity.k # "Widget"
         THEN Raise("AttributeError", "object has no attribute 'delete'", st,
                    tr \o Hook("can_delete_entity", TRUE))
    ELSE Ok(None, delete_row(st, entity),
            tr \o Hook("can_delete_entity", TRUE) \o Call("delete"))

\* A worker ends its request with the outcome r of its handler.
Finished(w, r) == [w EXCEPT !.pc = "done", !.tr = r.tr, !.resp = Observed(r)]

Step(worker, step) == log' = Append(log, <<worker, step>>)

\* The editing worker takes a PUT and runs it up to the return of get_entity.
EditResolve ==
    /\ editor.pc = "idle"
    /\ \E a \in PkSegs, q \in Queries, body \in Bodies :
          \E r \in {edit_entity_resolve(Store, q, <<a>>, body)} :
             LET w == Worker("resolved", Request("PUT", <<a>>, q, body), r.val, r.tr,
                             NoObserved) IN
             editor' = IF r.exc # "" THEN Finished(w, r) ELSE w
    /\ Step("editor", "resolve")
    /\ UNCHANGED <<storeVars, cfgVars, reqVars, regVars, deleter>>

\* can_edit_entity and get_model_form (lines 309-314): no call on the storage
EditCheck ==
    /\ editor.pc = "resolved"
    /\ LET FormCls == get_model_form(keys(editor.req.body))
           tr == editor.tr \o Hook("can_edit_entity", can_edit_entity) IN
       editor' = IF ~can_edit_entity \/ FormCls = {}
                 THEN Finished(editor, Ok(HttpResponseForbidden, Store, tr))
                 ELSE [editor EXCEPT !.pc = "checked", !.tr = tr]
    /\ Step("editor", "check")
    /\ UNCHANGED <<storeVars, cfgVars, reqVars, regVars, deleter>>

\* form.save() (lines 315-322)
EditSave ==
    /\ editor.pc = "checked"
    /\ \E r \in {edit_entity_save(Store, editor.entity, editor.req.body, editor.tr)} :
          /\ editor' = Finished(editor, r)
          /\ widgets' = r.st.widgets
          /\ nextpk' = r.st.nextpk
          /\ tags' = r.st.tags
          /\ links' = r.st.links
    /\ Step("editor", "save")
    /\ UNCHANGED <<cfgVars, reqVars, regVars, deleter>>

\* The deleting worker takes a DELETE and runs it up to the return of get_entity.
DeleteResolve ==
    /\ deleter.pc = "idle"
    /\ \E a \in PkSegs :
          \E r \in {After(Call("delete_entity"), get_entity(Store, NoQuery, Seg(<<a>>, 1)))} :
             LET w == Worker("resolved", Request("DELETE", <<a>>, NoQuery, NoBody),
                             r.val, r.tr, NoObserved) IN
             deleter' = IF r.exc # "" THEN Finished(w, r) ELSE w
    /\ Step("deleter", "resolve")
    /\ UNCHANGED <<storeVars, cfgVars, reqVars, regVars, editor>>

\* can_delete_entity and entity.delete() (lines 329-332)
DeleteAct ==
    /\ deleter.pc = "resolved"
    /\ \E r \in {delete_entity_act(Store, deleter.entity, deleter.tr)} :
          /\ deleter' = Finished(deleter, r)
          /\ widgets' = r.st.widgets
          /\ nextpk' = r.st.nextpk
          /\ tags' = r.st.tags
          /\ links' = r.st.links
    /\ Step("deleter", "delete")
    /\ UNCHANGED <<cfgVars, reqVars, regVars, editor>>

\* A storage that holds the entities 1..MaxPk, every one linked to every Tag
\* or none to any.
InitRace ==
    /\ widgets = [p \in 1..MaxPk |-> [name |-> "a", owner |-> 1]]
    /\ nextpk = MaxPk + 1
    /\ tags = 1..NumTags
    /\ links \in {{}, (1..MaxPk) \X (1..NumTags)}
    /\ hooks \in HookProfiles
    /\ DEBUG \in BOOLEAN
    /\ pc = "idle"
    /\ req = NoRequest
    /\ resp = NoObserved
    /\ first = NoObserved
    /\ view_by_model = [m \in {} |-> NoView]
    /\ name_by_model = [m \in {} |-> ""]
    /\ urls = <<>>
    /\ lookup = ""
    /\ view = ""
    /\ editor = NoWorker
    /\ deleter = NoWorker
    /\ log = <<>>

NextRace == EditResolve \/ EditCheck \/ EditSave \/ DeleteResolve \/ DeleteAct

SpecRace == InitRace /\ [][NextRace]_vars

(***************************************************************************)
(* What the claims speak of.                                               *)
(***************************************************************************)
Trace == resp.val.tr
Called(name) == \E i \in 1..Len(Trace) : Trace[i].call = name
Said(hook, answer) ==
    \E i \in 1..Len(Trace) : Trace[i].call = hook /\ Trace[i].result = answer
Invoked(method) == \E i \in 1..Len(Trace) : Trace[i] = Invoke(method)[1]
Handled(verb, n) == pc = "done" /\ req.verb = verb /\ Len(req.args) = n
\* The first segment is the primary key of an entity in storage.
FirstExists == ParsePk(req.args[1]) \in DOMAIN widgets
\* The entity of the first segment is in the collection the query leaves.
FirstMatchesQuery ==
    \/ req.q = NoQuery
    \/ req.q.f = "name" /\ widgets[ParsePk(req.args[1])].name = req.q.v
    \/ req.q.f = "tags" /\ <<ParsePk(req.args[1]), ParsePk(req.q.v)>> \in links

\* C1: a GET with one segment that is a well-formed primary key of no entity
\* (and no query parameter) is answered 404, with a message exactly under DEBUG.
C1_NotFoundIs404 ==
    (/\ Handled("GET", 1)
     /\ req.q = NoQuery
     /\ ParsePk(req.args[1]) # BadPk
     /\ ~FirstExists)
    => (resp.status = 404 /\ (resp.msg # "" <=> DEBUG))

\* C2: a POST with two segments (id, s) whose body decodes, id an existing,
\* retrievable entity, s no many-to-many field and s an instance method:
\* create_linked_entity is tried first, call_entity_method after it, the method
\* is invoked and its result is the response.
C2_FallbackToMethod ==
    (/\ Handled("POST", 2)
     /\ req.body.json # "bad"
     /\ FirstExists /\ FirstMatchesQuery /\ can_get_entity
     /\ ~is_m2m("Widget", req.args[2])
     /\ attr_kind(req.args[2]) = "instancemethod")
    => (/\ \E i, j \in 1..Len(Trace) :
              /\ i < j
              /\ Trace[i].call = "create_linked_entity"
              /\ Trace[j].call = "call_entity_method"
        /\ Invoked(req.args[2])
        /\ resp.status = 200
        /\ resp.val.reply = MethodResult(req.args[2])
        /\ ~Called("add"))

C2_Witness ==
    /\ Handled("POST", 2)
    /\ req.body.json = "dict"
    /\ FirstExists /\ can_get_entity
    /\ req.args[2] = "describe"
    /\ Invoked("describe")

\* C3: with can_get_entity overridden to deny, every GET with one, two or three
\* segments whose first segment is the primary key of an existing entity (no
\* query parameter) is answered 403.
C3_DeniedGetIs403 ==
    (/\ pc = "done" /\ req.verb = "GET" /\ Len(req.args) \in 1..3
     /\ req.q = NoQuery
     /\ hooks["can_get_entity"] = "deny"
     /\ FirstExists)
    => resp.status = 403

\* C4 as claimed: the repeated DELETE (no query parameter) of a link that the
\* first call removed is answered without an error, by the same no-content
\* result.
C4_RepeatIsNoContent ==
    (pc = "redone" /\ Len(req.args) = 3 /\ req.q = NoQuery /\ first.status = 204)
    => resp.status = 204

\* Whether the query of the request filters on the link the request removes.
QueryOnRemovedLink == req.q.f = req.args[2] /\ req.q.v = req.args[3]

\* C4 amended: the repeated DELETE of a link that the first call removed leaves
\* the storage as it is and is answered with an error: 404, raised because the
\* linked entity is no longer in the linked collection, or 400 when the query
\* of the request filters on the removed link, so that the entity itself is no
\* longer found.
C4_RepeatIsStorageNoOp ==
    [][(pc' = "redone" /\ Len(req'.args) = 3 /\ first'.status = 204)
       => (/\ storeVars' = storeVars
           /\ <<ParsePk(req'.args[1]), ParsePk(req'.args[3])>> \notin links'
           /\ IF QueryOnRemovedLink' THEN resp'.status = 400
              ELSE resp'.status = 404 /\ resp'.raised)]_vars

C4_Witness ==
    /\ pc = "redone" /\ Len(req.args) = 3 /\ first.status = 204
    /\ first.val.tr[Len(first.val.tr)] = Call("remove")[1]
    /\ resp.status = 404
    /\ FirstExists /\ ParsePk(req.args[3]) \in tags

\* C5: a POST with no segment whose body is a mapping that passes validation,
\* create allowed, persists an entity and is answered by a 302 redirect.
C5_CreateRedirects ==
    (/\ Handled("POST", 0)
     /\ isinstance_dict(req.body)
     /\ form_is_valid(Store, {"name", "owner"}, req.body)
     /\ can_create_entity)
    => (Called("save") /\ resp.status = 302)

\* C6: a lookup that finds nothing is answered 404: (a) a POST with two
\* segments on an existing entity and the link "tags" whose payload names no
\* Tag, (b) a GET whose query names a reference field and the primary key of
\* no referenced entity.  Hooks are the defaults.
C6_NotFoundIs404 ==
    /\ (/\ Handled("POST", 2) /\ hooks = Default /\ req.q = NoQuery
        /\ FirstExists /\ is_m2m("Widget", req.args[2])
        /\ isinstance_dict(req.body) /\ keys(req.body) = {"id"}
        /\ ParsePk(req.body.id) # BadPk /\ ParsePk(req.body.id) \notin tags)
       => resp.status = 404
    /\ (/\ pc = "done" /\ req.verb = "GET" /\ hooks = Default
        /\ req.q.f = "owner" /\ ParsePk(req.q.v) # BadPk
        /\ ParsePk(req.q.v) \notin Owners)
       => resp.status = 404

C8_LinkOpsKeepEntities ==
    [][(/\ pc' \in {"done", "redone"}
        /\ Called("create_linked_entity")' \/ Called("delete_linked_entity")')
       => (DOMAIN widgets' = DOMAIN widgets /\ tags' = tags /\ nextpk' = nextpk)]_vars

C8_Witness ==
    /\ pc = "done"
    /\ Called("delete_linked_entity") /\ Called("remove")
    /\ FirstExists /\ ParsePk(req.args[3]) \in tags

\* The hook that guards each mutating operation.
OwnHooks ==
    {<<"create_entity", "can_create_entity">>,
     <<"edit_entity", "can_edit_entity">>,
     <<"delete_entity", "can_delete_entity">>,
     <<"create_linked_entity", "can_create_linked_entity">>,
     <<"delete_linked_entity", "can_delete_linked_entity">>}

\* C9: when a mutating operation consults its own hook and the hook answers
\* false, the operation returns the 403 response (nothing is raised) and the
\* storage is as before.
C9_DeniedIsReturned403 ==
    [][(/\ pc' = "done"
        /\ \E oh \in OwnHooks : Called(oh[1])' /\ Said(oh[2], "False")')
       => (/\ resp'.status = 403 /\ ~resp'.raised
           /\ storeVars' = storeVars)]_vars

C9_Witness ==
    /\ pc = "done"
    /\ Called("delete_linked_entity") /\ Said("can_delete_linked_entity", "False")
    /\ <<ParsePk(req.args[1]), ParsePk(req.args[3])>> \in links

\* The least element of a nonempty set of numbers.
Min(S) == CHOOSE i \in S : \A j \in S : i <= j

\* C10: the view found for a model that has no registration of its own is the
\* view of the first of its bases, in declaration order, for which a view is
\* found, and none when no base has one.
C10_InheritsFirstBase ==
    [][(/\ <<lookup, view>>' # <<lookup, view>>
        /\ view_by_model' = view_by_model
        /\ lookup' \notin DOMAIN view_by_model)
       => LET bases == Bases(lookup')
              resolving == {i \in 1..Len(bases) :
                               get_view_by_model(view_by_model, bases[i]) # NoView} IN
          IF resolving = {} THEN view' = NoView
          ELSE view' = get_view_by_model(view_by_model, bases[Min(resolving)])]_vars

C10_Witness ==
    /\ lookup = "Special"
    /\ DOMAIN view_by_model = {"Article", "Tagged"}
    /\ view_by_model["Article"] # view_by_model["Tagged"]
    /\ view = view_by_model["Article"]

\* C11 as claimed: a PUT with one segment on an existing entity, can_edit_entity
\* true and a mapping as body, is answered with the updated entity or with 400,
\* never with 403.
C11_EditNever403 ==
    (/\ Handled("PUT", 1)
     /\ FirstExists /\ can_edit_entity
     /\ isinstance_dict(req.body))
    => resp.status \in {200, 400}

\* C11 amended: such a PUT is answered 200 with the saved entity, 400, or 403;
\* it is 403 exactly when the entity is found and the mapping names no
\* editable field (the empty mapping, or only the primary key), and then
\* nothing is saved.
C11_EditIs403WithoutEditableField ==
    (/\ Handled("PUT", 1)
     /\ FirstExists /\ can_edit_entity
     /\ isinstance_dict(req.body))
    => (/\ resp.status \in {200, 400, 403}
        /\ resp.status = 403
           <=> (FirstMatchesQuery /\ keys(req.body) \cap {"name", "owner"} = {})
        /\ resp.status = 403 => ~Called("save")
        /\ resp.status = 200
           => (/\ Called("save")
               /\ resp.val.reply =
                     WidgetEntity(ParsePk(req.args[1]), widgets[ParsePk(req.args[1])])
               /\ \A f \in keys(req.body) \cap {"name"} :
                     widgets[ParsePk(req.args[1])].name = req.body.name))

C11_Witness ==
    /\ Handled("PUT", 1)
    /\ FirstExists /\ can_edit_entity /\ hooks = Default
    /\ req.q = NoQuery
    /\ isinstance_dict(req.body) /\ keys(req.body) = {}
    /\ resp.status = 403

\* C12: when create_entity, given a mapping, returns an entity with primary key
\* id, get_entity(id) on the storage it leaves, with no query parameter and
\* retrieval permitted by can_get_entity, returns the entity of that primary
\* key, and each editable field named in the mapping has the mapping's value
\* (a reference field the entity the value is the primary key of).
C12_CreateThenGet ==
    [][(/\ pc' = "done" /\ req'.verb = "POST" /\ Len(req'.args) = 0
        /\ isinstance_dict(req'.body)
        /\ resp'.status = 200 /\ resp'.val.reply.k = "Widget"
        /\ can_get_entity)
       => LET id == resp'.val.reply.pk
              data == req'.body
              got == get_entity(Store', NoQuery, Str(PkStrings[id])) IN
          /\ got.exc = ""
          /\ got.val.k = "Widget" /\ got.val.pk = id
          /\ "name" \in keys(data) => got.val.name = data.name
          /\ "owner" \in keys(data) => got.val.owner = ParsePk(data.owner)
          /\ got.st = Store']_vars

C12_Witness ==
    /\ Handled("POST", 0)
    /\ isinstance_dict(req.body) /\ req.body.name = "b"
    /\ resp.status = 200 /\ resp.val.reply.k = "Widget"
    /\ can_get_entity
    /\ get_entity(Store, NoQuery, Str(PkStrings[resp.val.reply.pk])).val
          = WidgetEntity(resp.val.reply.pk, [name |-> "b", owner |-> 1])

\* C13: nothing closes the window between the checks of an edit and its save.
\* A worker that deletes an entity it resolved, can_delete_entity allowing, is
\* never held back by an edit in progress; and when the entity an editing
\* worker holds has been deleted since its checks, the save is not preceded by
\* another lookup: it is answered as if the entity were there, 200 with the
\* row written again under the same primary key when the form is valid, 400
\* for an invalid form, never the 404 of an entity that is not found.
C13_SaveAfterDeleteNotRechecked ==
    [][/\ (/\ editor.pc = "checked" /\ editor'.pc = "done"
           /\ editor.entity.k = "Widget"
           /\ editor.entity.pk \notin DOMAIN widgets)
          => LET data == editor.req.body
                 valid == form_is_valid(Store, get_model_form(keys(data)), data) IN
             /\ editor'.resp.status = IF valid THEN 200 ELSE 400
             /\ ~editor'.resp.raised
             /\ valid => (/\ editor.entity.pk \in DOMAIN widgets'
                          /\ editor'.resp.val.reply =
                                WidgetEntity(editor.entity.pk, widgets'[editor.entity.pk])
                          /\ "name" \in keys(data)
                             => widgets'[editor.entity.pk].name = data.name)
             /\ ~valid => storeVars' = storeVars
       /\ (/\ deleter.pc = "resolved" /\ deleter'.pc = "done"
           /\ deleter.entity.k = "Widget"
           /\ can_delete_entity)
          => (/\ deleter'.resp.status = 204
              /\ deleter.entity.pk \notin DOMAIN widgets')]_vars

\* The edit passed its checks, the delete then removed the entity, and the
\* save then ran: both requests succeeded and the entity is in the storage.
C13_Witness ==
    /\ editor.pc = "done" /\ editor.resp.status = 200
    /\ deleter.pc = "done" /\ deleter.resp.status = 204
    /\ editor.entity.pk = deleter.entity.pk
    /\ editor.entity.pk \in DOMAIN widgets
    /\ \E i, j, k \in 1..Len(log) :
          /\ i < j /\ j < k
          /\ log[i] = <<"editor", "check">>
          /\ log[j] = <<"deleter", "delete">>
          /\ log[k] = <<"editor", "save">>

====
